---- MODULE Spec2Model ----
(***************************************************************************)
(* Z-Wave SerialAPI host: the frame codec, the GetZWave / Send2ZWave       *)
(* transport and the controllers of ZWaveRangeTest.py and                  *)
(* ZWaveRSSITest.py, as state machines over the UART receive buffer.       *)
(***************************************************************************)
EXTENDS Integers, Sequences, FiniteSets, TLC

VARIABLES
    variant,      \* "Range" (ZWaveRangeTest.py) or "RSSI" (ZWaveRSSITest.py)
    pc,           \* position of the host inside GetZWave / Send2ZWave
    rx,           \* UART receive buffer (self.UZB), oldest byte first
    tmo,          \* GetRxChar: the local timeout counter
    gzTimeout,    \* GetZWave: the caller's timeout argument
    length,       \* GetZWave: the length byte read
    pkt,          \* GetZWave: bytes collected after the length byte
    gzRet,        \* GetZWave: return value, <<>> = None, <<p>> = the bytes p
    gzResidue,    \* GetZWave: checksum ^ length as computed, -1 when not computed
    gzAcks,       \* ACK bytes written by the current GetZWave call
    gzReads,      \* bytes consumed from rx by the current GetZWave call
    cmd,          \* Send2ZWave: SerialAPIcmd
    wire,         \* the frame put on the link, as the receiver will see it
    sentWire,     \* the frame as the sender wrote it
    delivered,    \* codec link: the frame has been handed to the receive buffer
    nCorrupt,     \* codec link: number of bytes altered in transit
    caller,       \* who called GetZWave: "top" or "s2z" (Send2ZWave)
    flag,         \* Send2ZWave: returnStringFlag
    retries,      \* Send2ZWave: the loop variable of the retry loop
    floodI,       \* Send2ZWave: the loop variable i of the ACK probe
    nFrames,      \* copies of the command frame written by this call
    s2Acks,       \* ACK bytes Send2ZWave wrote since its last frame write (or its start)
    firstAckAt,   \* first attempt whose handshake reply was ACK, 0 if none yet
    response,     \* Send2ZWave: return value, <<>> = None
    reply,        \* Send2ZWave: <<c>> once GetRxChar(500) returned c in this pass
    radioSent,    \* bytes the radio has put on the link during the call
    stale0,       \* bytes buffered when the call began
    prog,         \* __main__: "inc", "exc" or "ramp" (the range test)
    cpkt,         \* __main__: pkt, <<>> = None, <<p>> = the bytes p
    state,        \* inc / exc: the counter of the polling loop
    sent,         \* the SerialAPIcmd of every Send2ZWave call so far, in order
    reported,     \* inc / exc: the node identifiers printed, in order
    scriptLen,    \* number of callback frames the radio delivers
    scriptLast,   \* the last of them
    nFetched,     \* callback fetches made (GetZWave calls after the start)
    sawNone,      \* a fetch inside the script found no frame (a timeout)
    lvl,          \* ramp: index of powerlevel in PowerLevelTests
    lastPowerLevel,
    lastAck,
    result,       \* ramp: the final line printed, <<>> when none
    pre,          \* ramp: what the three preflight calls returned
    reports,      \* ramp: what the report fetch of each level returned
    rssi,         \* MapRSSI: the argument
    mapped,       \* MapRSSI: the return value, <<>> before the call
    gzCalls,      \* GetZWave calls begun
    s2Timeout,    \* Send2ZWave: the caller's timeout argument
    lead,         \* bytes the link delivers ahead of a frame
    ackedAt,      \* copies written when the radio first put an ACK on the link, 0 if none yet
    rcTimeout,    \* GetRxChar called on its own: the timeout argument
    rcRet         \* GetRxChar called on its own: <<retval>> once it returned

vars == <<variant, pc, rx, tmo, gzTimeout, length, pkt, gzRet, gzResidue,
          gzAcks, gzReads, cmd, wire, sentWire, delivered, nCorrupt, caller,
          flag, retries, floodI, nFrames, s2Acks, firstAckAt, response, reply,
          radioSent, stale0, prog, cpkt, state, sent, reported, scriptLen,
          scriptLast, nFetched, sawNone, lvl, lastPowerLevel, lastAck, result,
          pre, reports, rssi, mapped, gzCalls, s2Timeout, lead, ackedAt,
          rcTimeout, rcRet>>

gzVars == <<gzTimeout, length, pkt, gzRet, gzResidue, gzAcks, gzReads>>
codecVars == <<cmd, wire, sentWire, delivered, nCorrupt>>
s2Vars == <<flag, retries, floodI, nFrames, s2Acks, firstAckAt, response, reply>>
envVars == <<radioSent, stale0>>
rcVars == <<rcTimeout, rcRet>>
callVars == <<gzCalls, s2Timeout, lead, ackedAt, rcVars>>
incVars == <<state, reported, scriptLen, scriptLast, nFetched, sawNone>>
rampVars == <<lvl, lastPowerLevel, lastAck, result, pre, reports>>
pureVars == <<rssi, mapped>>
ctlVars == <<prog, cpkt, sent, incVars, rampVars, pureVars>>
(* The transport on its own: every variable but the controllers'. *)
transportVars == <<rx, tmo, caller, gzVars, codecVars, s2Vars, envVars, callVars>>
(* What GetZWave and GetRxChar leave alone. *)
notGZ == <<variant, caller, codecVars, s2Vars, envVars, callVars, ctlVars>>

----------------------------------------------------------------------------
(* SerialAPI defines *)
SOF == 1
ACK == 6
NAK == 21
CAN == 24
REQUEST == 0
RESPONSE == 1
FUNC_ID_ZW_SET_DEFAULT == 66

(* The value GetRxChar returns when its counter ran out. *)
None == -1

Variants == {"Range", "RSSI"}

(* Bounds of the model. *)
MaxPayload == 2        \* longest SerialAPIcmd encoded
MaxCorrupt == 2        \* most bytes altered in transit
CharWait == 1          \* polls of GetRxChar() with its default timeout
FrameWait == 2         \* polls of GetRxChar(timeout) for a caller's timeout
HandshakeWait == 2     \* polls of GetRxChar(500), the handshake wait
MaxRadio == 3          \* bytes the radio puts on the link during one call
MaxStale == 1          \* bytes buffered when a call begins

(* Byte values payloads and altered bytes are drawn from. *)
CodecBytes == {0, 2, 253}
MaxT == 3              \* largest timeout of a GetRxChar call on its own
MaxLead == 2           \* longest run of bytes ahead of a frame
ReadsCap == 16         \* the count of bytes consumed is kept up to this value

----------------------------------------------------------------------------
(* Bitwise exclusive or of two bytes. *)
RECURSIVE XorN(_, _, _)
XorN(a, b, n) ==
    IF n = 0 THEN 0
    ELSE (((a % 2) + (b % 2)) % 2) + (2 * XorN(a \div 2, b \div 2, n - 1))

Xor(a, b) == XorN(a, b, 8)

(* The XOR of bytes[lo..hi], 0 when the range is empty.  XOR is associative
   and commutative, so the range is halved instead of walked byte by byte:
   the value is the one the loop "for c in pkt: s ^= c" accumulates. *)
RECURSIVE XorRange(_, _, _)
XorRange(bytes, lo, hi) ==
    IF lo > hi THEN 0
    ELSE IF lo = hi THEN bytes[lo]
    ELSE LET mid == (lo + hi) \div 2
         IN  Xor(XorRange(bytes, lo, mid), XorRange(bytes, mid + 1, hi))

(* checksum(): s = 0xff, then s ^= c for every byte. *)
ChecksumFrom(s, bytes) == Xor(s, XorRange(bytes, 1, Len(bytes)))

checksum(bytes) == ChecksumFrom(255, bytes)

(* The length byte counting the direction byte only. *)
frameLenPlusOne(c) == <<Len(c) + 1, REQUEST>> \o c

(* pack("2B", len(SerialAPIcmd)+2, REQUEST) + SerialAPIcmd *)
frame(c) == <<Len(c) + 2, REQUEST>> \o c

(* pack("B",SOF) + frame + pack("B",chksum) *)
EncodePkt(c) == <<SOF>> \o frame(c) \o <<checksum(frame(c))>>

(* pack("2B", len(SerialAPIcmd)+2, REQUEST) raises struct.error unless the
   length fits a byte. *)
PackFits(c) == Len(c) + 2 <= 255

(* pkt[1:] in place of pkt[1:-1]: the checksum byte is returned too. *)
StripTypeOnly(p) == IF Len(p) <= 1 THEN <<>> ELSE SubSeq(p, 2, Len(p))

(* Python's pkt[1:-1]. *)
Strip(p) == IF Len(p) <= 2 THEN <<>> ELSE SubSeq(p, 2, Len(p) - 1)

(* Python's s[i] with i >= 0. *)
At(s, i) == s[i + 1]

RECURSIVE SeqsUpTo(_, _)
SeqsUpTo(S, n) ==
    IF n = 0 THEN {<<>>}
    ELSE LET prev == SeqsUpTo(S, n - 1)
         IN  prev \cup {Append(s, b) : s \in {t \in prev : Len(t) = n - 1}, b \in S}

----------------------------------------------------------------------------
(* GetRxChar: one pass of the polling loop that finds no byte waiting. *)
Waiting == {"g_first", "g_sync", "g_len", "g_body", "s_wait", "x_loop"}

RxPoll ==
    /\ pc \in Waiting
    /\ tmo > 0
    /\ rx = <<>>
    /\ tmo' = tmo - 1
    /\ UNCHANGED <<pc, rx, gzVars, notGZ>>

(* One more byte consumed by GetZWave. *)
CountRead(n) == IF n < ReadsCap THEN n + 1 ELSE n

(* The byte read whenever one is waiting, whatever the counter. *)
RxByteAnyCount == rx # <<>>

(* GetRxChar returns a byte: the loop ended with timeout > 0. *)
RxByte == tmo > 0 /\ rx # <<>>
(* GetRxChar returns None: the counter reached 0. *)
RxNone == tmo = 0

----------------------------------------------------------------------------
(* GetZWave *)
GZ_Begin ==
    /\ pc = "g_start"
    /\ pkt' = <<>>
    /\ tmo' = gzTimeout
    /\ pc' = "g_first"
    /\ gzCalls' = gzCalls + 1
    /\ UNCHANGED <<rx, gzTimeout, length, gzRet, gzResidue, gzAcks, gzReads,
                   variant, caller, codecVars, s2Vars, envVars, s2Timeout,
                   lead, ackedAt, rcVars, ctlVars>>

(* An ACK written on the way out. *)
GZ_FirstTimeoutAck ==
    /\ pc = "g_first"
    /\ RxNone
    /\ gzRet' = <<>>
    /\ gzAcks' = gzAcks + 1
    /\ pc' = "g_ret"
    /\ UNCHANGED <<rx, tmo, gzTimeout, length, pkt, gzResidue, gzReads, notGZ>>

(* c == None: return None *)
GZ_FirstTimeout ==
    /\ pc = "g_first"
    /\ RxNone
    /\ gzRet' = <<>>
    /\ pc' = "g_ret"
    /\ UNCHANGED <<rx, tmo, gzTimeout, length, pkt, gzResidue, gzAcks,
                   gzReads, notGZ>>

(* Any byte taken as the start of a frame. *)
AfterAnyByte(b) ==
    /\ pc' = "g_len"
    /\ tmo' = CharWait

(* The byte read selects the next wait: the length byte after SOF, else
   another byte of the sync loop. *)
AfterSyncByte(b) ==
    IF b = SOF
    THEN /\ pc' = "g_len"
         /\ tmo' = CharWait
    ELSE /\ pc' = "g_sync"
         /\ tmo' = gzTimeout

GZ_FirstByte ==
    /\ pc = "g_first"
    /\ RxByte
    /\ rx' = Tail(rx)
    /\ gzReads' = CountRead(gzReads)
    /\ AfterSyncByte(Head(rx))
    /\ UNCHANGED <<gzTimeout, length, pkt, gzRet, gzResidue, gzAcks, notGZ>>

GZ_SyncByte ==
    /\ pc = "g_sync"
    /\ RxByte
    /\ rx' = Tail(rx)
    /\ gzReads' = CountRead(gzReads)
    /\ AfterSyncByte(Head(rx))
    /\ UNCHANGED <<gzTimeout, length, pkt, gzRet, gzResidue, gzAcks, notGZ>>

(* GetRxChar returned None inside the sync loop: ord(None) raises. *)
GZ_SyncTimeout ==
    /\ pc = "g_sync"
    /\ RxNone
    /\ pc' = "g_raise"
    /\ UNCHANGED <<rx, tmo, gzVars, notGZ>>

(* The ACK written only when the checksum is right. *)
CompleteAckIfValid(p, len) ==
    /\ gzResidue' = Xor(checksum(p), len)
    /\ gzAcks' = IF Xor(checksum(p), len) = 0 THEN gzAcks + 1 ELSE gzAcks
    /\ gzRet' = <<Strip(p)>>
    /\ pc' = "g_ret"

(* "checksum ^= length" left out. *)
CompleteNoLength(p, len) ==
    /\ gzResidue' = checksum(p)
    /\ gzAcks' = gzAcks + 1
    /\ gzRet' = <<Strip(p)>>
    /\ pc' = "g_ret"

(* A frame whose checksum is wrong dropped: None returned. *)
CompleteDropInvalid(p, len) ==
    /\ gzResidue' = Xor(checksum(p), len)
    /\ gzAcks' = gzAcks + 1
    /\ gzRet' = IF Xor(checksum(p), len) = 0 THEN <<Strip(p)>> ELSE <<>>
    /\ pc' = "g_ret"

(* The frame is complete: checksum, ACK, return pkt[1:-1]. *)
Complete(p, len) ==
    /\ gzResidue' = Xor(checksum(p), len)
    /\ gzAcks' = gzAcks + 1
    /\ gzRet' = <<Strip(p)>>
    /\ pc' = "g_ret"

GZ_LenByte ==
    /\ pc = "g_len"
    /\ RxByte
    /\ rx' = Tail(rx)
    /\ gzReads' = CountRead(gzReads)
    /\ length' = Head(rx)
    /\ IF Head(rx) = 0
       THEN /\ Complete(pkt, 0)
            /\ tmo' = 0
       ELSE /\ pc' = "g_body"
            /\ tmo' = CharWait
            /\ UNCHANGED <<gzRet, gzResidue, gzAcks>>
    /\ UNCHANGED <<gzTimeout, pkt, notGZ>>

(* length=ord(self.GetRxChar()) with no byte: ord(None) raises. *)
GZ_LenTimeout ==
    /\ pc = "g_len"
    /\ RxNone
    /\ pc' = "g_raise"
    /\ UNCHANGED <<rx, tmo, gzVars, notGZ>>

GZ_BodyByte ==
    /\ pc = "g_body"
    /\ RxByte
    /\ rx' = Tail(rx)
    /\ gzReads' = CountRead(gzReads)
    /\ pkt' = Append(pkt, Head(rx))
    /\ IF Len(pkt) + 1 = length
       THEN /\ Complete(Append(pkt, Head(rx)), length)
            /\ tmo' = 0
       ELSE /\ pc' = "g_body"
            /\ tmo' = CharWait
            /\ UNCHANGED <<gzRet, gzResidue, gzAcks>>
    /\ UNCHANGED <<gzTimeout, length, notGZ>>

(* A body byte did not arrive.  ZWaveRangeTest: pkt += None raises.
   ZWaveRSSITest: the local counter runs to 10 and pkt is returned. *)
GZ_BodyTimeout ==
    /\ pc = "g_body"
    /\ RxNone
    /\ IF variant = "Range"
       THEN /\ pc' = "g_raise"
            /\ UNCHANGED gzRet
       ELSE /\ pc' = "g_ret"
            /\ gzRet' = <<pkt>>
    /\ UNCHANGED <<rx, tmo, gzTimeout, length, pkt, gzResidue, gzAcks,
                   gzReads, notGZ>>

GetZWave ==
    \/ GZ_Begin
    \/ RxPoll
    \/ GZ_FirstTimeout
    \/ GZ_FirstByte
    \/ GZ_SyncByte
    \/ GZ_SyncTimeout
    \/ GZ_LenByte
    \/ GZ_LenTimeout
    \/ GZ_BodyByte
    \/ GZ_BodyTimeout

----------------------------------------------------------------------------
(* The codec over a link: Send2ZWave's frame for cmd is put on the link,   *)
(* bytes may be altered in transit, the frame reaches the receive buffer   *)
(* and GetZWave reads it.                                                  *)

GZIdle ==
    /\ tmo = 0
    /\ gzTimeout = FrameWait
    /\ length = None
    /\ pkt = <<>>
    /\ gzRet = <<>>
    /\ gzResidue = None
    /\ gzAcks = 0
    /\ gzReads = 0
    /\ gzCalls = 0
    /\ rcTimeout = 0
    /\ rcRet = <<>>

CtlIdle ==
    /\ prog = "none"
    /\ cpkt = <<>>
    /\ state = 0
    /\ sent = <<>>
    /\ reported = <<>>
    /\ scriptLen = 0
    /\ scriptLast = <<>>
    /\ nFetched = 0
    /\ sawNone = FALSE
    /\ lvl = 0
    /\ lastPowerLevel = 0
    /\ lastAck = 0
    /\ result = <<>>
    /\ pre = <<>>
    /\ reports = <<>>
    /\ rssi = None
    /\ mapped = <<>>

S2Idle ==
    /\ flag = FALSE
    /\ retries = 0
    /\ floodI = 0
    /\ nFrames = 0
    /\ s2Acks = 0
    /\ firstAckAt = 0
    /\ response = <<>>
    /\ reply = <<>>
    /\ s2Timeout = FrameWait

InitCodec ==
    /\ variant \in Variants
    /\ pc = "c_encode"
    /\ rx = <<>>
    /\ GZIdle
    /\ cmd \in SeqsUpTo(CodecBytes, MaxPayload)
    /\ wire = <<>>
    /\ sentWire = <<>>
    /\ delivered = FALSE
    /\ nCorrupt = 0
    /\ caller = "top"
    /\ S2Idle
    /\ radioSent = 0
    /\ lead = <<>>
    /\ ackedAt = 0
    /\ stale0 = 0
    /\ CtlIdle

Encode ==
    /\ pc = "c_encode"
    /\ wire' = EncodePkt(cmd)
    /\ sentWire' = EncodePkt(cmd)
    /\ pc' = "c_link"
    /\ UNCHANGED <<variant, rx, tmo, gzVars, cmd, delivered, nCorrupt, caller, s2Vars, envVars, callVars, ctlVars>>

Corrupt ==
    /\ pc = "c_link"
    /\ nCorrupt < MaxCorrupt
    /\ \E i \in 1..Len(wire), b \in CodecBytes :
          /\ wire[i] = sentWire[i]
          /\ b # wire[i]
          /\ wire' = [wire EXCEPT ![i] = b]
    /\ nCorrupt' = nCorrupt + 1
    /\ UNCHANGED <<variant, pc, rx, tmo, gzVars, cmd, sentWire, delivered, caller, s2Vars, envVars, callVars, ctlVars>>

Deliver ==
    /\ pc = "c_link"
    /\ rx' = wire
    /\ delivered' = TRUE
    /\ pc' = "g_start"
    /\ UNCHANGED <<variant, tmo, gzVars, cmd, wire, sentWire, nCorrupt, caller, s2Vars, envVars, callVars, ctlVars>>

Lost ==
    /\ pc = "c_link"
    /\ pc' = "g_start"
    /\ UNCHANGED <<rx, tmo, gzVars, notGZ>>

NextCodec ==
    \/ Encode
    \/ Corrupt
    \/ Deliver
    \/ Lost
    \/ GetZWave

SpecCodec == InitCodec /\ [][NextCodec]_vars

----------------------------------------------------------------------------
(* Send2ZWave *)

(* One pass too many. *)
RetriesOneMore(v) == IF v = "Range" THEN 4 ELSE 5

(* range(1,4) in ZWaveRangeTest, range(1,5) in ZWaveRSSITest. *)
Retries(v) == IF v = "Range" THEN 3 ELSE 4

(* One ACK more in the probe. *)
FloodMaxPlusOne == 32 + 1

(* for i in range(32) *)
FloodMax == 32

(* What Send2ZWave leaves alone until it calls GetZWave. *)
notS2 == <<variant, caller, gzVars, cmd, wire, delivered, nCorrupt, envVars,
          callVars, ctlVars>>

(* The ACK written whether or not a byte is waiting. *)
S2_BeginAlwaysAck ==
    /\ pc = "s_start"
    /\ s2Acks' = s2Acks + 1
    /\ pc' = "s_purge"
    /\ UNCHANGED <<rx, tmo, flag, retries, floodI, nFrames, firstAckAt, response,
                   reply, sentWire, notS2>>

(* if self.UZB.inWaiting(): write ACK *)
S2_Begin ==
    /\ pc = "s_start"
    /\ s2Acks' = IF rx # <<>> THEN s2Acks + 1 ELSE s2Acks
    /\ pc' = "s_purge"
    /\ UNCHANGED <<rx, tmo, flag, retries, floodI, nFrames, firstAckAt, response,
                   reply, sentWire, notS2>>

(* while self.UZB.inWaiting(): c=self.UZB.read() *)
S2_PurgeRead ==
    /\ pc = "s_purge"
    /\ rx # <<>>
    /\ rx' = Tail(rx)
    /\ UNCHANGED <<pc, tmo, s2Vars, sentWire, notS2>>

(* The purge ends; the frame is built and the retry loop entered, unless
   pack() raises. *)
S2_PurgeEnd ==
    /\ pc = "s_purge"
    /\ rx = <<>>
    /\ IF PackFits(cmd)
       THEN /\ sentWire' = EncodePkt(cmd)
            /\ retries' = 1
            /\ pc' = "s_send"
       ELSE /\ pc' = "s_raise"
            /\ UNCHANGED <<sentWire, retries>>
    /\ UNCHANGED <<rx, tmo, flag, floodI, nFrames, s2Acks, firstAckAt, response,
                   reply, notS2>>

(* for c in pkt: write(c); then c=self.GetRxChar(500) *)
S2_Send ==
    /\ pc = "s_send"
    /\ nFrames' = nFrames + 1
    /\ s2Acks' = 0
    /\ reply' = <<>>
    /\ tmo' = HandshakeWait
    /\ pc' = "s_wait"
    /\ UNCHANGED <<rx, flag, retries, floodI, firstAckAt, response, sentWire,
                   notS2>>

(* The end of one pass of the retry loop: the next pass, or the loop is over. *)
NextTry ==
    IF retries < Retries(variant)
    THEN /\ retries' = retries + 1
         /\ pc' = "s_send"
    ELSE /\ retries' = retries
         /\ pc' = "s_after"

(* c==None: the ACK probe begins. *)
S2_NoReply ==
    /\ pc = "s_wait"
    /\ RxNone
    /\ floodI' = 0
    /\ reply' = <<None>>
    /\ pc' = "s_flood"
    /\ UNCHANGED <<rx, tmo, flag, retries, nFrames, s2Acks, firstAckAt, response,
                   sentWire, notS2>>

(* One pass of the probe: write ACK; if inWaiting: break. *)
S2_Flood ==
    /\ pc = "s_flood"
    /\ s2Acks' = s2Acks + 1
    /\ IF rx # <<>> \/ floodI + 1 >= FloodMax
       THEN /\ NextTry
            /\ floodI' = 0
       ELSE /\ floodI' = floodI + 1
            /\ UNCHANGED <<pc, retries>>
    /\ UNCHANGED <<rx, tmo, flag, nFrames, firstAckAt, response, reply, sentWire,
                   notS2>>

(* NAK taken for an acknowledgment as well. *)
IsAckOrNak(b) == b = ACK \/ b = NAK

(* elif ord(c)==ACK *)
IsAck(b) == b = ACK

(* The handshake reply is ACK: break. *)
S2_ReplyAck ==
    /\ pc = "s_wait"
    /\ RxByte
    /\ IsAck(Head(rx))
    /\ rx' = Tail(rx)
    /\ firstAckAt' = IF Head(rx) = ACK /\ firstAckAt = 0 THEN retries ELSE firstAckAt
    /\ pc' = "s_after"
    /\ reply' = <<Head(rx)>>
    /\ tmo' = 0
    /\ UNCHANGED <<flag, retries, floodI, nFrames, s2Acks, response, sentWire,
                   notS2>>

(* Any other reply (CAN too): write ACK, then purge. *)
S2_ReplyOther ==
    /\ pc = "s_wait"
    /\ RxByte
    /\ ~IsAck(Head(rx))
    /\ rx' = Tail(rx)
    /\ firstAckAt' = IF Head(rx) = ACK /\ firstAckAt = 0 THEN retries ELSE firstAckAt
    /\ s2Acks' = s2Acks + 1
    /\ pc' = IF variant = "Range" THEN "s_drain2" ELSE "s_drain1"
    /\ reply' = <<Head(rx)>>
    /\ tmo' = 0
    /\ UNCHANGED <<flag, retries, floodI, nFrames, response, sentWire, notS2>>

S2_DrainRead ==
    /\ pc \in {"s_drain1", "s_drain2"}
    /\ rx # <<>>
    /\ rx' = Tail(rx)
    /\ UNCHANGED <<pc, tmo, s2Vars, sentWire, notS2>>

(* The second ACK left out. *)
S2_Drain1EndNoAck ==
    /\ pc = "s_drain1"
    /\ rx = <<>>
    /\ pc' = "s_drain2"
    /\ UNCHANGED <<rx, tmo, s2Vars, sentWire, notS2>>

(* ZWaveRSSITest: the first purge ends, a second ACK is written. *)
S2_Drain1End ==
    /\ pc = "s_drain1"
    /\ rx = <<>>
    /\ s2Acks' = s2Acks + 1
    /\ pc' = "s_drain2"
    /\ UNCHANGED <<rx, tmo, flag, retries, floodI, nFrames, firstAckAt, response,
                   reply, sentWire, notS2>>

(* The purge left before the buffer is empty. *)
S2_Drain2EndEarly ==
    /\ pc = "s_drain2"
    /\ NextTry
    /\ UNCHANGED <<rx, tmo, flag, floodI, nFrames, s2Acks, firstAckAt, response,
                   reply, sentWire, notS2>>

(* The last purge ends: the next pass of the retry loop. *)
S2_Drain2End ==
    /\ pc = "s_drain2"
    /\ rx = <<>>
    /\ NextTry
    /\ UNCHANGED <<rx, tmo, flag, floodI, nFrames, s2Acks, firstAckAt, response,
                   reply, sentWire, notS2>>

(* The response read only after an acknowledged attempt. *)
S2_AfterOnlyIfAcked ==
    /\ pc = "s_after"
    /\ pc' = IF flag /\ firstAckAt # 0 THEN "g_start" ELSE "s_ret"
    /\ response' = <<>>
    /\ s2Acks' = 0
    /\ reply' = <<>>
    /\ gzTimeout' = s2Timeout
    /\ UNCHANGED <<rx, tmo, flag, retries, floodI, nFrames, firstAckAt, sentWire,
                   variant, caller, length, pkt, gzRet, gzResidue, gzAcks,
                   gzReads, cmd, wire, delivered, nCorrupt, envVars, callVars,
                   ctlVars>>

(* response=None; if returnStringFlag: response=self.GetZWave(timeout) *)
S2_After ==
    /\ pc = "s_after"
    /\ pc' = IF flag THEN "g_start" ELSE "s_ret"
    /\ response' = <<>>
    /\ s2Acks' = 0
    /\ reply' = <<>>
    /\ gzTimeout' = s2Timeout
    /\ UNCHANGED <<rx, tmo, flag, retries, floodI, nFrames, firstAckAt, sentWire,
                   variant, caller, length, pkt, gzRet, gzResidue, gzAcks,
                   gzReads, cmd, wire, delivered, nCorrupt, envVars, callVars,
                   ctlVars>>

(* GetZWave has returned to Send2ZWave: return response. *)
S2_Return ==
    /\ pc = "g_ret"
    /\ caller = "s2z"
    /\ response' = gzRet
    /\ pc' = "s_ret"
    /\ UNCHANGED <<rx, tmo, flag, retries, floodI, nFrames, s2Acks, firstAckAt,
                   reply, sentWire, notS2>>

Send2ZWave ==
    \/ S2_Begin
    \/ S2_PurgeRead
    \/ S2_PurgeEnd
    \/ S2_Send
    \/ S2_NoReply
    \/ S2_Flood
    \/ S2_ReplyAck
    \/ S2_ReplyOther
    \/ S2_DrainRead
    \/ S2_Drain1End
    \/ S2_Drain2End
    \/ S2_After
    \/ S2_Return

----------------------------------------------------------------------------
(* The radio: it may put a byte on the link between any two steps of the   *)
(* host, until the call is over.                                           *)
(* Send2ZWave tells ACK from any other byte and GetZWave SOF from any other
   byte, so the link-level bytes stand for all replies to a command; a
   GetZWave call on its own also sees 0 (an empty frame's length byte) and
   254 (the one body byte that makes a frame of length 1 check). *)
RadioBytes == IF caller = "s2z" THEN {SOF, ACK, NAK, CAN} ELSE {0, SOF, ACK, NAK, CAN, 254}

CallOver == pc \in {"s_ret", "s_raise", "g_raise"} \/ (pc = "g_ret" /\ caller = "top")

RadioPut ==
    /\ ~CallOver
    /\ radioSent < MaxRadio
    /\ \E b \in RadioBytes : rx' = Append(rx, b)
    /\ radioSent' = radioSent + 1
    /\ UNCHANGED <<variant, pc, tmo, caller, gzVars, codecVars, s2Vars, stale0,
                   callVars, ctlVars>>

(* The timeout this caller passes: not GetZWave's default, so that the
   value handed on is seen. *)
CallTimeout == CharWait

(* A Send2ZWave call, with whatever the radio left in the buffer. *)
InitSend ==
    /\ variant \in Variants
    /\ pc = "s_start"
    /\ caller = "s2z"
    /\ rx \in SeqsUpTo(RadioBytes, MaxStale)
    /\ stale0 = Len(rx)
    /\ radioSent = 0
    /\ lead = <<>>
    /\ ackedAt = 0
    /\ GZIdle
    /\ cmd = <<FUNC_ID_ZW_SET_DEFAULT>>
    /\ wire = <<>>
    /\ sentWire = <<>>
    /\ delivered = FALSE
    /\ nCorrupt = 0
    /\ flag \in BOOLEAN
    /\ retries = 0
    /\ floodI = 0
    /\ nFrames = 0
    /\ s2Acks = 0
    /\ firstAckAt = 0
    /\ response = <<>>
    /\ reply = <<>>
    /\ s2Timeout = CallTimeout
    /\ CtlIdle

NextSend ==
    \/ Send2ZWave
    \/ GetZWave
    \/ RadioPut

SpecSend == InitSend /\ [][NextSend]_vars

(* A GetZWave call on its own, as the controllers make it. *)
InitGet ==
    /\ variant \in Variants
    /\ pc = "g_start"
    /\ caller = "top"
    /\ rx \in SeqsUpTo(RadioBytes, MaxStale)
    /\ stale0 = Len(rx)
    /\ radioSent = 0
    /\ lead = <<>>
    /\ ackedAt = 0
    /\ GZIdle
    /\ cmd = <<>>
    /\ wire = <<>>
    /\ sentWire = <<>>
    /\ delivered = FALSE
    /\ nCorrupt = 0
    /\ S2Idle
    /\ CtlIdle

NextGet ==
    \/ GetZWave
    \/ RadioPut

SpecGet == InitGet /\ [][NextGet]_vars

----------------------------------------------------------------------------
(* Properties of the transport and the codec.                              *)

HostStep == Send2ZWave \/ GetZWave

(* The retry loop of Send2ZWave is over. *)
LoopOver ==
    pc \in {"s_after", "s_ret", "g_start", "g_first", "g_sync", "g_len",
            "g_body", "g_ret", "g_raise"}

(* C1: Send2ZWave writes the command frame exactly k times, k the first
   attempt whose handshake reply is ACK, or 3 (ZWaveRangeTest) / 4
   (ZWaveRSSITest) when no attempt is answered by ACK; once an ACK reply
   has been consumed no further copy is written. *)
C1_TransmitsUntilFirstAck ==
    /\ firstAckAt # 0 => nFrames = firstAckAt
    /\ (LoopOver /\ firstAckAt = 0) =>
           nFrames = (IF variant = "Range" THEN 3 ELSE 4)

C1_Witness == pc = "s_ret" /\ firstAckAt = 2 /\ nFrames = 2

(* The radio puts no byte on the link and none was buffered. *)
Quiet == radioSent = 0 /\ stale0 = 0

(* C2: with a silent radio a Send2ZWave call writes the frame exactly 3
   (ZWaveRangeTest) / 4 (ZWaveRSSITest) times and returns None, with or
   without a response requested; it never raises and is never stuck. *)
C2_SilentRadioGivesUp ==
    Quiet =>
        /\ pc # "g_raise"
        /\ pc = "s_ret" =>
              /\ nFrames = (IF variant = "Range" THEN 3 ELSE 4)
              /\ response = <<>>
        /\ pc # "s_ret" => ENABLED HostStep

C2_Witness == Quiet /\ pc = "s_ret" /\ flag /\ nFrames >= 3

(* GetZWave has read the length byte and all the bytes it announces. *)
FrameRead == length # None /\ Len(pkt) = length

(* C3: a GetZWave call that read SOF, the length byte L and all L bytes
   writes exactly one ACK before it returns, whatever the checksum, and
   writes no ACK before the last of the L bytes is consumed. *)
C3_OneAckPerFrame ==
    /\ gzAcks <= 1
    /\ gzAcks = 1 => FrameRead
    /\ (pc = "g_ret" /\ FrameRead) => gzAcks = 1

C3_Witness ==
    pc = "g_ret" /\ FrameRead /\ length > 0 /\ gzResidue # 0 /\ gzAcks = 1

(* C4: the frame Send2ZWave builds for a payload, delivered unaltered to
   GetZWave, makes GetZWave return exactly that payload with a checksum
   residue of zero. *)
C4_RoundTrip ==
    (delivered /\ nCorrupt = 0) =>
        /\ pc # "g_raise"
        /\ pc = "g_ret" => (gzRet = <<cmd>> /\ gzResidue = 0)

C4_Witness == pc = "g_ret" /\ delivered /\ nCorrupt = 0 /\ Len(cmd) >= 2

(* XOR of the byte-wise differences of two byte sequences of one length. *)
RECURSIVE DiffXor(_, _)
DiffXor(a, b) ==
    IF a = <<>> THEN 0
    ELSE Xor(Xor(Head(a), Head(b)), DiffXor(Tail(a), Tail(b)))

(* GetZWave computed its checksum value for a frame whose SOF arrived. *)
ResidueComputed ==
    pc = "g_ret" /\ delivered /\ gzResidue # None /\ wire[1] = sentWire[1]

(* C5 as stated: the value GetZWave computes is zero if and only if no
   byte of length, direction, payload or checksum was altered. *)
C5_ZeroIffUnaltered ==
    ResidueComputed => (gzResidue = 0 <=> wire = sentWire)

(* C5 as amended: the value is zero when nothing was altered; when the
   length byte arrived unaltered it is the XOR of the byte-wise
   differences of direction, payload and checksum, so one altered byte
   is always detected and alterations that cancel are not. *)
C5_ResidueIsXorOfDifferences ==
    ResidueComputed =>
        /\ nCorrupt = 0 => gzResidue = 0
        /\ wire[2] = sentWire[2] =>
              /\ gzResidue = DiffXor(wire, sentWire)
              /\ nCorrupt = 1 => gzResidue # 0

C5_Witness ==
    ResidueComputed /\ wire[2] = sentWire[2] /\ nCorrupt = 2 /\ gzResidue = 0

----------------------------------------------------------------------------
(* __main__, inc and exc: the inclusion / exclusion controller.  A         *)
(* Send2ZWave or GetZWave call is one step here: it returns None, a frame  *)
(* or raises, as the transport above does.                                 *)

FUNC_ID_ZW_SEND_DATA == 19
FUNC_ID_ZW_ADD_NODE_TO_NETWORK == 74
FUNC_ID_ZW_REMOVE_NODE_FROM_NETWORK == 75
ADD_NODE_CONTROLLER == 2
ADD_NODE_SLAVE == 3
ADD_NODE_STOP == 5
(* ADD_NODE_ANY | ADD_NODE_OPTION_NETWORK_WIDE | ADD_NODE_OPTION_NORMAL_POWER *)
ADD_NODE_MODE == 193
ADD_NODE_STATUS_LEARN_READY == 1
ADD_NODE_STATUS_ADDING_SLAVE == 3
ADD_NODE_STATUS_ADDING_CONTROLLER == 4
ADD_NODE_STATUS_PROTOCOL_DONE == 5
ADD_NODE_STATUS_DONE == 6
ADD_NODE_STATUS_FAILED == 7

(* while state<5 *)
PollBudget == 5

(* Bound of the model: the longest callback script. *)
MaxScript == 7

NoFrame == <<>>
Some(p) == <<p>>
Bytes(o) == o[1]

(* Callback frames as GetZWave returns them: function id, callback id,
   status and (in the longer ones) the node identifier. *)
Statuses == 1..7
NodeIds == {9}
CallbackFrames ==
    {<<FUNC_ID_ZW_ADD_NODE_TO_NETWORK, 152>>}
    \cup {<<FUNC_ID_ZW_ADD_NODE_TO_NETWORK, 152, st>> : st \in Statuses}
    \cup {<<FUNC_ID_ZW_ADD_NODE_TO_NETWORK, 152, st, n>> : st \in Statuses, n \in NodeIds}

(* What a call that waits for a frame may return. *)
Returned(frames) == {NoFrame} \cup {Some(f) : f \in frames}

(* pack("!3B", ...) of the start command of each branch. *)
StartCmd(branch) ==
    IF branch = "inc"
    THEN <<FUNC_ID_ZW_ADD_NODE_TO_NETWORK, ADD_NODE_MODE, 152>>
    ELSE <<FUNC_ID_ZW_REMOVE_NODE_FROM_NETWORK, ADD_NODE_MODE, 153>>

(* The command sent again when the response is not READY. *)
ReissueCmd(branch) == <<FUNC_ID_ZW_REMOVE_NODE_FROM_NETWORK, ADD_NODE_MODE, 153>>

StopCmd(branch) ==
    IF branch = "inc"
    THEN <<FUNC_ID_ZW_ADD_NODE_TO_NETWORK, ADD_NODE_STOP, 0>>
    ELSE <<FUNC_ID_ZW_REMOVE_NODE_FROM_NETWORK, ADD_NODE_STOP, 0>>

(* The loop test without its terminal-status part. *)
ContinuePollAnyStatus(v, st, o) ==
    /\ st < PollBudget
    /\ o # NoFrame
    /\ Len(Bytes(o)) > 2

(* The loop test without its budget part. *)
ContinuePollNoBudget(v, st, o) ==
    /\ o # NoFrame
    /\ Len(Bytes(o)) > 2
    /\ ~(At(Bytes(o), 2) = 5 \/ At(Bytes(o), 2) = 6)

(* while state<5 and [pkt!=None and] len(pkt)>2 and
   not (pkt[2]==0x05 or pkt[2]==0x06) *)
ContinuePoll(v, st, o) ==
    /\ st < PollBudget
    /\ o # NoFrame
    /\ Len(Bytes(o)) > 2
    /\ ~(At(Bytes(o), 2) = 5 \/ At(Bytes(o), 2) = 6)

(* ZWaveRangeTest has no "pkt!=None": len(None) raises when it is reached. *)
PollTestRaises(v, st, o) == v = "Range" /\ st < PollBudget /\ o = NoFrame

(* if [pkt!=None and] len(pkt)>3 and (pkt[2]==ADD_NODE_SLAVE or
   pkt[2]==ADD_NODE_CONTROLLER) *)
ReportsNode(o) ==
    /\ o # NoFrame
    /\ Len(Bytes(o)) > 3
    /\ (At(Bytes(o), 2) = ADD_NODE_SLAVE \/ At(Bytes(o), 2) = ADD_NODE_CONTROLLER)

(* The k-th callback fetch: a frame of the script, or a timeout. *)
Fetch(k) ==
    IF k < scriptLen THEN Returned(CallbackFrames)
    ELSE IF k = scriptLen THEN {scriptLast}
    ELSE {NoFrame}

incRest == <<variant, transportVars, prog, scriptLen, scriptLast, rampVars, pureVars>>

(* pkt=self.Send2ZWave(start, True, timeout=10000); if pkt[2]!=0x01: *)
I_Start ==
    /\ pc = "i_start"
    /\ sent' = Append(sent, StartCmd(prog))
    /\ \E r \in Returned(CallbackFrames) :
          /\ cpkt' = r
          /\ pc' = IF r = NoFrame \/ Len(Bytes(r)) < 3 THEN "raised"
                   ELSE IF At(Bytes(r), 2) # 1 THEN "i_reissue"
                   ELSE "i_first"
    /\ UNCHANGED <<state, reported, nFetched, sawNone, incRest>>

(* pkt=self.Send2ZWave(FUNC_ID_ZW_REMOVE_NODE_FROM_NETWORK ..., True) *)
I_Reissue ==
    /\ pc = "i_reissue"
    /\ sent' = Append(sent, ReissueCmd(prog))
    /\ \E r \in Returned(CallbackFrames) : cpkt' = r
    /\ pc' = "i_first"
    /\ UNCHANGED <<state, reported, nFetched, sawNone, incRest>>

(* pkt=self.GetZWave(timeout=10000); state=0 *)
I_First ==
    /\ pc = "i_first"
    /\ \E r \in Fetch(1) :
          /\ cpkt' = r
          /\ sawNone' = (r = NoFrame /\ 1 <= scriptLen)
    /\ nFetched' = 1
    /\ state' = 0
    /\ pc' = "i_loop"
    /\ UNCHANGED <<sent, reported, incRest>>

(* One pass of the polling loop. *)
I_Poll ==
    /\ pc = "i_loop"
    /\ ContinuePoll(variant, state, cpkt)
    /\ state' = state + 1
    /\ nFetched' = nFetched + 1
    /\ \E r \in Fetch(nFetched + 1) :
          /\ cpkt' = r
          /\ sawNone' = (sawNone \/ (r = NoFrame /\ nFetched + 1 <= scriptLen))
          /\ pc' = IF variant = "Range" /\ r = NoFrame THEN "raised" ELSE "i_loop"
          /\ reported' = IF ReportsNode(r)
                         THEN Append(reported, At(Bytes(r), 3))
                         ELSE reported
    /\ UNCHANGED <<sent, incRest>>

(* The loop test raises: len(None) in ZWaveRangeTest. *)
I_PollTestRaises ==
    /\ pc = "i_loop"
    /\ PollTestRaises(variant, state, cpkt)
    /\ pc' = "raised"
    /\ UNCHANGED <<cpkt, sent, state, reported, nFetched, sawNone, incRest>>

(* self.Send2ZWave(stop, timeout=10000); exit() *)
I_Stop ==
    /\ pc = "i_loop"
    /\ ~ContinuePoll(variant, state, cpkt)
    /\ ~PollTestRaises(variant, state, cpkt)
    /\ sent' = Append(sent, StopCmd(prog))
    /\ pc' = "exit"
    /\ UNCHANGED <<cpkt, state, reported, nFetched, sawNone, incRest>>

(* A call that reads a frame raises inside GetZWave (ord(None), pkt += None). *)
I_CallRaises ==
    /\ \/ /\ pc = "i_start"
          /\ sent' = Append(sent, StartCmd(prog))
          /\ UNCHANGED <<state, nFetched>>
       \/ /\ pc = "i_reissue"
          /\ sent' = Append(sent, ReissueCmd(prog))
          /\ UNCHANGED <<state, nFetched>>
       \/ /\ pc = "i_first"
          /\ nFetched' = 1
          /\ UNCHANGED <<sent, state>>
       \/ /\ pc = "i_loop"
          /\ ContinuePoll(variant, state, cpkt)
          /\ state' = state + 1
          /\ nFetched' = nFetched + 1
          /\ UNCHANGED sent
    /\ pc' = "raised"
    /\ UNCHANGED <<cpkt, reported, sawNone, incRest>>

InitInc ==
    /\ variant \in Variants
    /\ prog \in {"inc", "exc"}
    /\ pc = "i_start"
    /\ scriptLen \in 0..MaxScript
    /\ scriptLast \in (IF scriptLen = 0 THEN {NoFrame}
                       ELSE {Some(f) : f \in CallbackFrames})
    /\ cpkt = NoFrame
    /\ state = 0
    /\ sent = <<>>
    /\ reported = <<>>
    /\ nFetched = 0
    /\ sawNone = FALSE
    /\ lvl = 0
    /\ lastPowerLevel = 0
    /\ lastAck = 0
    /\ result = <<>>
    /\ pre = <<>>
    /\ reports = <<>>
    /\ rssi = None
    /\ mapped = <<>>
    /\ rx = <<>>
    /\ caller = "top"
    /\ GZIdle
    /\ cmd = <<>>
    /\ wire = <<>>
    /\ sentWire = <<>>
    /\ delivered = FALSE
    /\ nCorrupt = 0
    /\ S2Idle
    /\ radioSent = 0
    /\ lead = <<>>
    /\ ackedAt = 0
    /\ stale0 = 0

NextInc ==
    \/ I_Start
    \/ I_Reissue
    \/ I_First
    \/ I_Poll
    \/ I_PollTestRaises
    \/ I_Stop
    \/ I_CallRaises

SpecInc == InitInc /\ [][NextInc]_vars

----------------------------------------------------------------------------
(* __main__ of ZWaveRangeTest: the preflight and the power ramp.           *)

COMMAND_CLASS_POWERLEVEL == 115
POWERLEVEL_TEST_NODE_SET == 4
POWERLEVEL_TEST_NODE_REPORT == 6
POWERLEVEL_SET_NORMALPOWER == 0
POWERLEVEL_SET_MINUS4DBM == 4
POWERLEVEL_SET_MINUS8DBM == 8
POWERLEVEL_SET_MINUS9DBM == 9
(* TRANSMIT_OPTION_AUTO_ROUTE | TRANSMIT_OPTION_ACK *)
TXOPTS == 5
DEVKITNODEID == 2
DUTNODEID == 3

(* The levels with -8 dBm ahead of -4 dBm. *)
PowerLevelTestsSwapped ==
    <<POWERLEVEL_SET_NORMALPOWER, POWERLEVEL_SET_MINUS8DBM,
      POWERLEVEL_SET_MINUS4DBM, POWERLEVEL_SET_MINUS9DBM>>

PowerLevelTests ==
    <<POWERLEVEL_SET_NORMALPOWER, POWERLEVEL_SET_MINUS4DBM,
      POWERLEVEL_SET_MINUS8DBM, POWERLEVEL_SET_MINUS9DBM>>

(* pack("!11B", FUNC_ID_ZW_SEND_DATA, DEVKITNODEID, 6, COMMAND_CLASS_POWERLEVEL,
   POWERLEVEL_TEST_NODE_SET, DUTNODEID, powerlevel, 0, count, TXOPTS, funcid) *)
TestCmd(powerlevel, count, funcid) ==
    <<FUNC_ID_ZW_SEND_DATA, DEVKITNODEID, 6, COMMAND_CLASS_POWERLEVEL,
      POWERLEVEL_TEST_NODE_SET, DUTNODEID, powerlevel, 0, count, TXOPTS, funcid>>

PreflightCmd == TestCmd(POWERLEVEL_SET_NORMALPOWER, 3, 44)
DescentCmd(powerlevel) == TestCmd(powerlevel, 10, 33)

(* A Powerlevel Test Node Report as GetZWave returns it: 10 bytes, the
   acknowledgment count last. *)
Report(count) ==
    <<4, 0, DEVKITNODEID, 6, COMMAND_CLASS_POWERLEVEL,
      POWERLEVEL_TEST_NODE_REPORT, DUTNODEID, 1, 0, count>>

Counts == 0..10

(* Frames the ramp may be handed: send responses, send callbacks, reports
   of every count, and reports one byte short or long. *)
RampFrames ==
    {<<FUNC_ID_ZW_SEND_DATA>>, <<FUNC_ID_ZW_SEND_DATA, 1>>, <<FUNC_ID_ZW_SEND_DATA, 0>>,
     <<FUNC_ID_ZW_SEND_DATA, 44, 0>>, <<FUNC_ID_ZW_SEND_DATA, 44, 1>>}
    \cup {Report(c) : c \in Counts}
    \cup {SubSeq(Report(10), 1, 9), Append(Report(10), 0)}

(* if len(pkt)<2 or pkt[1]!=0x01: exit *)
SendRejected(p) == Len(p) < 2 \/ At(p, 1) # 1

(* if len(pkt)<3 or pkt[2]!=0x00: exit *)
NotAcked(p) == Len(p) < 3 \/ At(p, 2) # 0

(* The preflight report test with "< 0" for "< 1". *)
NoProbeAckedNever(p) == Len(p) # 10 \/ At(p, 9) < 0

(* if len(pkt)!=10 or pkt[9]<1: exit *)
NoProbeAcked(p) == Len(p) # 10 \/ At(p, 9) < 1

(* The cutoff with "<=" for "<". *)
BelowCutoffOrAt(p) == Len(p) # 10 \/ At(p, 9) <= 5

(* The cutoff at 4. *)
BelowCutoffFour(p) == Len(p) # 10 \/ At(p, 9) < 4

(* if len(pkt)!=10 or pkt[9]<5: break *)
BelowCutoff(p) == Len(p) # 10 \/ At(p, 9) < 5

rampRest == <<variant, transportVars, prog, incVars, pureVars>>

(* The preflight command and the test of its response. *)
R_Pre1 ==
    /\ pc = "r_pre1"
    /\ sent' = Append(sent, PreflightCmd)
    /\ \E r \in Returned(RampFrames) :
          /\ cpkt' = r
          /\ pre' = Append(pre, r)
          /\ pc' = IF r = NoFrame THEN "raised"
                   ELSE IF SendRejected(Bytes(r)) THEN "exit"
                   ELSE "r_pre2"
    /\ UNCHANGED <<lvl, lastPowerLevel, lastAck, result, reports, rampRest>>

(* pkt=self.GetZWave(): the callback of the helper node. *)
R_Pre2 ==
    /\ pc = "r_pre2"
    /\ \E r \in Returned(RampFrames) :
          /\ cpkt' = r
          /\ pre' = Append(pre, r)
          /\ pc' = IF r = NoFrame THEN "raised"
                   ELSE IF NotAcked(Bytes(r)) THEN "exit"
                   ELSE "r_pre3"
    /\ UNCHANGED <<sent, lvl, lastPowerLevel, lastAck, result, reports, rampRest>>

(* pkt=self.GetZWave(timeout=10000): the report; then the loop is set up. *)
R_Pre3 ==
    /\ pc = "r_pre3"
    /\ \E r \in Returned(RampFrames) :
          /\ cpkt' = r
          /\ pre' = Append(pre, r)
          /\ pc' = IF r = NoFrame THEN "raised"
                   ELSE IF NoProbeAcked(Bytes(r)) THEN "exit"
                   ELSE "r_send"
    /\ lastPowerLevel' = POWERLEVEL_SET_NORMALPOWER
    /\ lastAck' = 0
    /\ lvl' = 1
    /\ UNCHANGED <<sent, result, reports, rampRest>>

(* pkt=self.Send2ZWave(test command at powerlevel, True) *)
R_Send ==
    /\ pc = "r_send"
    /\ sent' = Append(sent, DescentCmd(PowerLevelTests[lvl]))
    /\ \E r \in Returned(RampFrames) : cpkt' = r
    /\ pc' = "r_ack"
    /\ UNCHANGED <<rampVars, rampRest>>

(* pkt=self.GetZWave() # Devkit ACK *)
R_Ack ==
    /\ pc = "r_ack"
    /\ \E r \in Returned(RampFrames) : cpkt' = r
    /\ pc' = "r_report"
    /\ UNCHANGED <<sent, rampVars, rampRest>>

(* pkt=self.GetZWave(timeout=10000), the cutoff test and the end of the pass. *)
R_Report ==
    /\ pc = "r_report"
    /\ \E r \in Returned(RampFrames) :
          /\ cpkt' = r
          /\ reports' = Append(reports, r)
          /\ IF r = NoFrame
             THEN /\ pc' = "raised"
                  /\ UNCHANGED <<lvl, lastPowerLevel, lastAck>>
             ELSE IF BelowCutoff(Bytes(r))
             THEN /\ pc' = "r_print"
                  /\ UNCHANGED <<lvl, lastPowerLevel, lastAck>>
             ELSE /\ lastPowerLevel' = PowerLevelTests[lvl]
                  /\ lastAck' = At(Bytes(r), 9)
                  /\ IF lvl < Len(PowerLevelTests)
                     THEN /\ lvl' = lvl + 1
                          /\ pc' = "r_send"
                     ELSE /\ lvl' = lvl
                          /\ pc' = "r_print"
    /\ UNCHANGED <<sent, result, pre, rampRest>>

(* print("DUTNodeID={}, ACK={}%, Min Power level={}") *)
R_Print ==
    /\ pc = "r_print"
    /\ result' = <<[ack |-> lastAck * 10, level |-> lastPowerLevel]>>
    /\ pc' = "exit"
    /\ UNCHANGED <<cpkt, sent, lvl, lastPowerLevel, lastAck, pre, reports, rampRest>>

(* A call that reads a frame raises inside GetZWave. *)
R_CallRaises ==
    /\ \/ /\ pc = "r_pre1"
          /\ sent' = Append(sent, PreflightCmd)
       \/ /\ pc = "r_send"
          /\ sent' = Append(sent, DescentCmd(PowerLevelTests[lvl]))
       \/ /\ pc \in {"r_pre2", "r_pre3", "r_ack", "r_report"}
          /\ UNCHANGED sent
    /\ pc' = "raised"
    /\ UNCHANGED <<cpkt, rampVars, rampRest>>

InitRamp ==
    /\ variant = "Range"
    /\ prog = "ramp"
    /\ pc = "r_pre1"
    /\ scriptLen = 0
    /\ scriptLast = NoFrame
    /\ cpkt = NoFrame
    /\ state = 0
    /\ sent = <<>>
    /\ reported = <<>>
    /\ nFetched = 0
    /\ sawNone = FALSE
    /\ lvl = 0
    /\ lastPowerLevel = 0
    /\ lastAck = 0
    /\ result = <<>>
    /\ pre = <<>>
    /\ reports = <<>>
    /\ rssi = None
    /\ mapped = <<>>
    /\ rx = <<>>
    /\ caller = "top"
    /\ GZIdle
    /\ cmd = <<>>
    /\ wire = <<>>
    /\ sentWire = <<>>
    /\ delivered = FALSE
    /\ nCorrupt = 0
    /\ S2Idle
    /\ radioSent = 0
    /\ lead = <<>>
    /\ ackedAt = 0
    /\ stale0 = 0

NextRamp ==
    \/ R_Pre1
    \/ R_Pre2
    \/ R_Pre3
    \/ R_Send
    \/ R_Ack
    \/ R_Report
    \/ R_Print
    \/ R_CallRaises

SpecRamp == InitRamp /\ [][NextRamp]_vars

----------------------------------------------------------------------------
(* Properties of the power ramp, checked under SpecRamp.                    *)

Printed == result # <<>>
WellFormedReport(o) == o # NoFrame /\ Len(Bytes(o)) = 10
Count(o) == At(Bytes(o), 9)
Passing(o) == WellFormedReport(o) /\ Count(o) >= 5
CountsAre(cs) ==
    /\ Len(reports) = Len(cs)
    /\ \A i \in 1..Len(cs) : WellFormedReport(reports[i]) /\ Count(reports[i]) = cs[i]

(* The first level of the descent whose count is below 5; 5 when none is. *)
FirstBelow ==
    IF \E i \in 1..Len(reports) : Count(reports[i]) < 5
    THEN CHOOSE i \in 1..Len(reports) :
            /\ Count(reports[i]) < 5
            /\ \A j \in 1..(i - 1) : Count(reports[j]) >= 5
    ELSE 5

(* C6: when the ramp prints its result after well-formed 10-byte reports
   whose first count is at least 5, the level printed is the one tested just
   before the first level whose count is below 5 (the last level, -10 dBm,
   when no count is below 5) and the yield printed is 10 times that level's
   count; the counts 10, 10, 10, 3 give -8 dBm at 100%. *)
C6_RampResult ==
    (/\ Printed
     /\ Len(reports) >= 1
     /\ \A i \in 1..Len(reports) : WellFormedReport(reports[i])
     /\ Count(reports[1]) >= 5)
    => /\ FirstBelow = 5 => Len(reports) = 4
       /\ FirstBelow < 5 => Len(reports) = FirstBelow
       /\ result[1].level = <<0, 4, 8, 9>>[FirstBelow - 1]
       /\ result[1].ack = 10 * Count(reports[FirstBelow - 1])
       /\ CountsAre(<<10, 10, 10, 3>>) => result[1] = [ack |-> 100, level |-> 8]

C6_Witness ==
    Printed /\ CountsAre(<<10, 10, 10, 3>>)

(* The printed level was tested in the descent with a report of at least 5
   acknowledgments, and the printed yield is 10 times that count. *)
NamesPassedLevel ==
    \E i \in 1..Len(reports) :
       /\ Passing(reports[i])
       /\ result[1].level = <<0, 4, 8, 9>>[i]
       /\ result[1].ack = 10 * Count(reports[i])

(* C7 as stated: every printed result names a level that was tested in the
   descent with a count of at least 5, with 10 times that count as yield,
   whatever the counts of the descent reports. *)
C7_ResultNamesPassedLevel ==
    Printed => NamesPassedLevel

(* C7: a printed result names a level tested in the descent with a count of
   at least 5, and 10 times that count, provided the first report of the
   descent is 10 bytes long with a count of at least 5; otherwise the result
   printed is full power with a yield of 0%. *)
C7_ResultNamesPassedLevelOrFallback ==
    Printed =>
        /\ Len(reports) >= 1
        /\ IF Passing(reports[1])
           THEN NamesPassedLevel
           ELSE result[1] = [ack |-> 0, level |-> 0]

C7_Witness ==
    /\ Printed
    /\ CountsAre(<<10, 5, 4>>)
    /\ result[1] = [ack |-> 50, level |-> 4]

IsDescentCmd(c) == Len(c) = 11 /\ At(c, 8) = 10
DescentSent == \E i \in 1..Len(sent) : IsDescentCmd(sent[i])

(* C8: a test command with probe count 10 is transmitted only after the
   preflight (full power, probe count 3) passed its three tests: a response
   of at least 2 bytes with byte 1 equal to 1, a callback of at least 3
   bytes with byte 2 equal to 0, and a report of exactly 10 bytes with byte
   9 at least 1.  A preflight report with 0 acknowledged probes ends the
   program with no such command sent and nothing printed. *)
C8_DescentOnlyAfterPreflight ==
    /\ DescentSent =>
          /\ sent[1] = <<19, 2, 6, 115, 4, 3, 0, 0, 3, 5, 44>>
          /\ Len(pre) = 3
          /\ \A i \in 1..3 : pre[i] # NoFrame
          /\ Len(pre[1][1]) >= 2 /\ At(pre[1][1], 1) = 1
          /\ Len(pre[2][1]) >= 3 /\ At(pre[2][1], 2) = 0
          /\ Len(pre[3][1]) = 10 /\ At(pre[3][1], 9) >= 1
    /\ (Len(pre) = 3 /\ WellFormedReport(pre[3]) /\ Count(pre[3]) = 0) =>
          /\ pc = "exit"
          /\ ~DescentSent
          /\ ~Printed

C8_Witness ==
    /\ DescentSent
    /\ Count(pre[3]) = 1
    /\ Len(sent) = 2

----------------------------------------------------------------------------
(* Properties of the inclusion / exclusion controller, checked under       *)
(* SpecInc.                                                                 *)

(* The script ends with a frame whose status byte is DONE, and every frame
   of it reached the controller so far. *)
ScriptEndsDone ==
    /\ scriptLen >= 1
    /\ scriptLast # NoFrame
    /\ Len(Bytes(scriptLast)) >= 3
    /\ At(Bytes(scriptLast), 2) = 6
    /\ ~sawNone

IsStopCmd(c) == c \in {<<74, 5, 0>>, <<75, 5, 0>>}
StopSent == \E i \in 1..Len(sent) : IsStopCmd(sent[i])
StopSentLast == Len(sent) >= 1 /\ IsStopCmd(sent[Len(sent)])

(* C9 as stated: whenever the script ends with DONE, the controller leaves
   its polling loop after fewer than 5 iterations and sends the stop
   command. *)
C9_DoneBeforeBudget ==
    (ScriptEndsDone /\ pc = "exit") => (state < 5 /\ StopSentLast)

(* C9: for a script of at most 5 frames ending with DONE, the controller
   fetches no callback beyond the script, performs fewer than 5 iterations,
   polls no more once the DONE frame is fetched (its only step is then the
   stop command), and has sent the stop command last when it exits. *)
C9_ShortScriptDoneBeforeBudget ==
    (ScriptEndsDone /\ scriptLen <= 5) =>
        /\ nFetched <= scriptLen
        /\ state < 5
        /\ (pc = "i_loop" /\ nFetched = scriptLen) =>
              /\ ENABLED I_Stop
              /\ ~ENABLED I_Poll
              /\ ~ENABLED I_PollTestRaises
        /\ pc = "exit" => StopSentLast

C9_Witness ==
    /\ ScriptEndsDone
    /\ scriptLen = 5
    /\ nFetched = 5
    /\ state = 4
    /\ pc = "exit"
    /\ StopSentLast

(* C10 as stated: every run of the controller that has ended, by exit() or
   by an exception, has transmitted the stop command. *)
C10_StopAlwaysSent ==
    pc \in {"exit", "raised"} => StopSent

----------------------------------------------------------------------------
(* The encoding of Send2ZWave for commands of every length: the call up to *)
(* the first write of the frame, with nothing buffered.                    *)

(* Bound of the model: the longest SerialAPIcmd encoded here. *)
MaxCmdLen == 255

(* Payloads of every length up to MaxCmdLen: constant ones and counting ones. *)
PatternSeeds == {0, 85, 255}
PatternStrides == {0, 1}
Pattern(n, seed, stride) == [i \in 1..n |-> (seed + (i * stride)) % 256]
EncodeCmds ==
    {Pattern(n, seed, stride) :
        n \in 0..MaxCmdLen, seed \in PatternSeeds, stride \in PatternStrides}

InitEncode ==
    /\ variant \in Variants
    /\ pc = "s_start"
    /\ caller = "s2z"
    /\ rx = <<>>
    /\ stale0 = 0
    /\ radioSent = 0
    /\ lead = <<>>
    /\ ackedAt = 0
    /\ GZIdle
    /\ cmd \in EncodeCmds
    /\ wire = <<>>
    /\ sentWire = <<>>
    /\ delivered = FALSE
    /\ nCorrupt = 0
    /\ S2Idle
    /\ CtlIdle

NextEncode ==
    \/ S2_Begin
    \/ S2_PurgeEnd
    \/ S2_Send

SpecEncode == InitEncode /\ [][NextEncode]_vars

(* The frame has been written once, or building it raised. *)
EncodeDone == pc \in {"s_wait", "s_raise"}

(* The frame written is SOF, payload length + 2, 0x00, the payload and 0xFF
   XORed with length, direction and every payload byte; each is a byte. *)
FrameAsSpecified ==
    /\ pc = "s_wait"
    /\ nFrames = 1
    /\ sentWire = <<1, Len(cmd) + 2, 0>> \o cmd
                     \o <<ChecksumFrom(255, <<Len(cmd) + 2, 0>> \o cmd)>>
    /\ \A i \in 1..Len(sentWire) : sentWire[i] \in 0..255
    /\ sentWire[2] <= 255

(* C11 as stated: for every payload of 0 to 255 bytes the frame written is
   SOF, length + 2, direction 0, the payload and the checksum, and the
   length on the wire does not exceed 255. *)
C11_FrameForEveryPayload ==
    (EncodeDone /\ Len(cmd) <= 255) => FrameAsSpecified

(* C11: for every payload of 0 to 253 bytes the frame written is SOF,
   length + 2, direction 0, the payload and the checksum (0xFF XORed with
   length, direction and payload), the length on the wire never exceeding
   255; for a payload of 254 bytes or more pack() raises and no byte of a
   frame is written. *)
C11_FrameForPayloadsThatFit ==
    EncodeDone =>
        IF Len(cmd) <= 253
        THEN FrameAsSpecified
        ELSE pc = "s_raise" /\ nFrames = 0 /\ sentWire = <<>>

C11_Witness ==
    /\ pc = "s_wait"
    /\ Len(cmd) = 253
    /\ sentWire[2] = 255
    /\ nFrames = 1

----------------------------------------------------------------------------
(* MapRSSI of ZWaveRSSITest.                                               *)

(* A sentinel left out: 0x7D read as a number. *)
MapRSSINoBelow(r) ==
    IF r = None THEN [text |-> "Error", dbm |-> None]
    ELSE IF r = 127 THEN [text |-> "RSSI_NOT_AVAILABLE", dbm |-> None]
    ELSE IF r = 126 THEN [text |-> "RSSI_MAX_POWER_SATURATED", dbm |-> None]
    ELSE [text |-> "dbm", dbm |-> 256 - r]

(* The string returned: a fixed text, or "{}dbm".format(256-rssi), here the
   text "dbm" with the number formatted. *)
MapRSSI(r) ==
    IF r = None THEN [text |-> "Error", dbm |-> None]
    ELSE IF r = 127 THEN [text |-> "RSSI_NOT_AVAILABLE", dbm |-> None]
    ELSE IF r = 126 THEN [text |-> "RSSI_MAX_POWER_SATURATED", dbm |-> None]
    ELSE IF r = 125 THEN [text |-> "RSSI_BELOW_SENSITIVITY", dbm |-> None]
    ELSE [text |-> "dbm", dbm |-> 256 - r]

(* The values pkt[6] may take, and None. *)
RssiValues == (0..255) \cup {None}

InitRSSI ==
    /\ variant = "RSSI"
    /\ pc = "m_call"
    /\ caller = "top"
    /\ rx = <<>>
    /\ stale0 = 0
    /\ radioSent = 0
    /\ lead = <<>>
    /\ ackedAt = 0
    /\ GZIdle
    /\ cmd = <<>>
    /\ wire = <<>>
    /\ sentWire = <<>>
    /\ delivered = FALSE
    /\ nCorrupt = 0
    /\ S2Idle
    /\ prog = "none"
    /\ cpkt = <<>>
    /\ state = 0
    /\ sent = <<>>
    /\ reported = <<>>
    /\ scriptLen = 0
    /\ scriptLast = <<>>
    /\ nFetched = 0
    /\ sawNone = FALSE
    /\ lvl = 0
    /\ lastPowerLevel = 0
    /\ lastAck = 0
    /\ result = <<>>
    /\ pre = <<>>
    /\ reports = <<>>
    /\ rssi \in RssiValues
    /\ mapped = <<>>

(* ZWaveRSSITest.MapRSSI(pkt[6]) *)
M_Map ==
    /\ pc = "m_call"
    /\ mapped' = <<MapRSSI(rssi)>>
    /\ pc' = "m_ret"
    /\ UNCHANGED <<variant, transportVars, prog, cpkt, sent, incVars, rampVars, rssi>>

NextRSSI == M_Map

SpecRSSI == InitRSSI /\ [][NextRSSI]_vars

(* C12: for a byte v, MapRSSI gives "not available" for 0x7F, "saturated"
   for 0x7E, "below sensitivity" for 0x7D, and the number 256 - v for every
   other v (224 for 0x20); the three sentinels are never given as a number. *)
C12_MapRSSI ==
    (pc = "m_ret" /\ rssi \in 0..255) =>
        /\ rssi = 127 => mapped[1].text = "RSSI_NOT_AVAILABLE"
        /\ rssi = 126 => mapped[1].text = "RSSI_MAX_POWER_SATURATED"
        /\ rssi = 125 => mapped[1].text = "RSSI_BELOW_SENSITIVITY"
        /\ rssi \in {125, 126, 127} => mapped[1].dbm = None
        /\ rssi \notin {125, 126, 127} => mapped[1] = [text |-> "dbm", dbm |-> 256 - rssi]
        /\ rssi = 32 => mapped[1].dbm = 224

C12_Witness ==
    pc = "m_ret" /\ rssi = 32 /\ mapped = <<[text |-> "dbm", dbm |-> 224]>>

----------------------------------------------------------------------------
(* Further properties of the inclusion / exclusion controller, checked     *)
(* under SpecInc.                                                          *)

(* The frame in hand has at least 3 bytes and the given status byte. *)
HoldsStatus(st) ==
    /\ cpkt # NoFrame
    /\ Len(Bytes(cpkt)) >= 3
    /\ At(Bytes(cpkt), 2) = st

(* C13 as stated: with a frame of status FAILED (7) in hand the controller
   fetches no further callback and its next step is the stop command, as
   with DONE (6). *)
C13_FailedStopsPolling ==
    (pc = "i_loop" /\ HoldsStatus(7)) =>
        /\ ~ENABLED I_Poll
        /\ ENABLED I_Stop

(* A callback fetch returned: the first one, or one of the loop. *)
FetchReturned ==
    /\ pc \in {"i_first", "i_loop"}
    /\ nFetched' = nFetched + 1
    /\ pc' = "i_loop"

(* C14 as stated: a fetch reports a node identifier if and only if the
   frame it returned has more than 3 bytes and status ADDING_SLAVE (3) or
   ADDING_CONTROLLER (4), and the identifier is the byte after the status
   byte; for every callback fetch, the first one included. *)
C14_ReportsAddingNode ==
    [][FetchReturned =>
          IF /\ cpkt' # NoFrame
             /\ Len(cpkt'[1]) > 3
             /\ cpkt'[1][3] \in {3, 4}
          THEN reported' = Append(reported, cpkt'[1][4])
          ELSE reported' = reported]_vars

(* C15: the polling loop makes at most 5 fetches, 6 callback fetches with
   the first one, whatever frames arrive; the fetches of the loop are as
   many as the value of its counter. *)
C15_BoundedPolling ==
    /\ state <= 5
    /\ nFetched <= 6
    /\ pc \in {"i_loop", "exit"} => nFetched = state + 1

C15_Witness ==
    /\ pc = "exit"
    /\ state = 5
    /\ nFetched = 6
    /\ HoldsStatus(7)

(* C16 as stated: the start command is sent again at most once and only
   after a response whose status byte is not 0x01; the command sent again
   is remove-node with the any-node mask in both branches; a missing
   response or one shorter than 3 bytes leads to that reissue and not to an
   unhandled error. *)
C16_ReissueOnNotReady ==
    /\ \A i \in 1..Len(sent) :
          sent[i] \in {<<74, 193, 152>>, <<75, 193, 153>>} => i <= 2
    /\ (Len(sent) >= 2 /\ sent[2][2] = 193) => sent[2] = <<75, 193, 153>>
    /\ (pc = "i_reissue") => (cpkt = NoFrame \/ Len(Bytes(cpkt)) < 3 \/ At(Bytes(cpkt), 2) # 1)
    /\ (Len(sent) = 1 /\ nFetched = 0 /\ cpkt # NoFrame /\ Len(Bytes(cpkt)) < 3) =>
          pc = "i_reissue"

----------------------------------------------------------------------------
(* Further properties of Send2ZWave, checked under SpecSend.               *)

(* Before the first frame write every byte consumed was discarded by the
   purge: those buffered at the start and those the radio sent since,
   less those still buffered. *)
Purged == stale0 + radioSent - Len(rx)

(* The purge is over and the first byte of the frame is written next. *)
PreSendOver == pc = "s_send" /\ nFrames = 0

(* C17 as stated: before the first frame write the host has written exactly
   one ACK, before discarding, if it discarded at least one byte, and none
   if it discarded none; every byte buffered when the call began has been
   discarded by then. *)
C17_AckIffDiscards ==
    /\ pc = "s_start" => (s2Acks = 0 /\ Purged = 0)
    /\ pc = "s_purge" => (Purged >= 1 => s2Acks = 1)
    /\ PreSendOver =>
          /\ Purged >= 1 => s2Acks = 1
          /\ Purged = 0 => s2Acks = 0
          /\ Len(rx) <= radioSent

(* C17: the host writes one ACK, before any discard, when a byte is
   buffered at its first test of the buffer (always when a byte was
   buffered when the call began, never when none was and the radio sent
   none), and writes none afterwards, so a byte that arrives after that
   test is discarded with no ACK; an ACK written is followed by at least
   one discard, and every byte buffered when the call began has been
   discarded before the first byte of the frame is written. *)
C17_AckIffBufferedAtFirstTest ==
    /\ [](/\ pc = "s_start" => (s2Acks = 0 /\ Purged = 0)
          /\ (nFrames = 0 /\ pc \in {"s_purge", "s_send"}) =>
                /\ s2Acks <= 1
                /\ stale0 >= 1 => s2Acks = 1
                /\ (stale0 = 0 /\ radioSent = 0) => s2Acks = 0
          /\ PreSendOver =>
                /\ s2Acks = 1 => Purged >= 1
                /\ Len(rx) <= radioSent)
    /\ [][pc = "s_purge" => s2Acks' = s2Acks]_vars

C17_Witness ==
    /\ PreSendOver
    /\ stale0 = 1
    /\ s2Acks = 1
    /\ Purged = 2

(* The handshake wait of this pass returned no byte. *)
TimedOut == reply = <<-1>>

(* C18: after a handshake wait that returned no byte the host writes at
   least 1 and at most 32 ACKs; each step of the probe writes one ACK and
   reads nothing, and the probe goes on exactly when no byte was pending at
   that write and fewer than 32 are written; then the next pass follows,
   which writes the frame again, or the loop is over after the last pass. *)
C18_ProbeWritesUpTo32Acks ==
    /\ [](TimedOut =>
            /\ pc \in {"s_flood", "s_send", "s_after"}
            /\ pc = "s_flood" => s2Acks <= 31
            /\ pc # "s_flood" => (s2Acks >= 1 /\ s2Acks <= 32)
            /\ pc = "s_send" => nFrames = retries - 1
            /\ pc = "s_after" => retries = (IF variant = "Range" THEN 3 ELSE 4))
    /\ [][(pc = "s_flood" /\ radioSent' = radioSent) =>
            /\ s2Acks' = s2Acks + 1
            /\ rx' = rx
            /\ (pc' = "s_flood") <=> (rx = <<>> /\ s2Acks' < 32)
            /\ pc' # "s_flood" =>
                  IF retries < (IF variant = "Range" THEN 3 ELSE 4)
                  THEN pc' = "s_send" /\ retries' = retries + 1
                  ELSE pc' = "s_after"]_vars

C18_Witness ==
    /\ TimedOut
    /\ pc = "s_send"
    /\ s2Acks = 3
    /\ rx # <<>>
    /\ retries = 2

(* The handshake reply of this pass was CAN, in ZWaveRSSITest. *)
Cancelled == variant = "RSSI" /\ reply = <<24>>

(* C19 as stated: after a CAN reply ZWaveRSSITest writes one ACK, purges
   the buffer twice and goes to the next pass; the loop does not end on it
   as a success. *)
C19_CancelOneAck ==
    Cancelled =>
        /\ pc \in {"s_drain1", "s_drain2", "s_send", "s_after"}
        /\ s2Acks = 1
        /\ firstAckAt = 0
        /\ pc = "s_after" => retries = 4

(* C19: after a CAN reply ZWaveRSSITest writes an ACK before each of its
   two purges, two in all, and goes to the next pass, which writes the
   frame again; the loop ends on it only as the last pass, never as a
   success. *)
C19_CancelAckBeforeEachPurge ==
    Cancelled =>
        /\ pc \in {"s_drain1", "s_drain2", "s_send", "s_after"}
        /\ pc = "s_drain1" => s2Acks = 1
        /\ pc # "s_drain1" => s2Acks = 2
        /\ firstAckAt = 0
        /\ pc = "s_send" => (retries \in 2..4 /\ nFrames = retries - 1)
        /\ pc = "s_after" => retries = 4

C19_Witness ==
    /\ Cancelled
    /\ pc = "s_send"
    /\ s2Acks = 2
    /\ retries = 2

(* The handshake reply of this pass was a byte the unexpected-reply branch
   takes: not ACK, and not CAN in ZWaveRSSITest. *)
Unexpected ==
    /\ reply \notin {<<>>, <<-1>>, <<6>>}
    /\ ~Cancelled

(* C20: after a reply other than ACK the host purges the buffer, leaves
   each purge only with the buffer empty, and goes to the next pass, which
   writes the frame again; the loop ends on it only as the last pass. *)
C20_UnexpectedReplyPurgesAndRetries ==
    /\ [](Unexpected =>
            /\ pc \in {"s_drain1", "s_drain2", "s_send", "s_after"}
            /\ firstAckAt = 0
            /\ pc = "s_send" => (retries >= 2 /\ nFrames = retries - 1)
            /\ pc = "s_after" => retries = (IF variant = "Range" THEN 3 ELSE 4))
    /\ [][(Unexpected /\ pc \in {"s_drain1", "s_drain2"} /\ pc' # pc) =>
            (rx = <<>> /\ rx' = <<>>)]_vars

C20_Witness ==
    /\ variant = "Range"
    /\ reply = <<24>>
    /\ pc = "s_send"
    /\ retries = 3

----------------------------------------------------------------------------
(* The response phase of Send2ZWave and the GetZWave claims. *)

(* The host is inside the retry loop of Send2ZWave or before it. *)
InLoop ==
    pc \in {"s_start", "s_purge", "s_send", "s_wait", "s_flood", "s_drain1",
            "s_drain2", "s_after"}

(* C21: Send2ZWave calls GetZWave only after its retry loop, at most once
   and only when a response was requested, with the timeout its caller
   passed; a call that returns with a response requested has made exactly
   one GetZWave call and returns what it returned, whether or not an
   attempt was acknowledged; with no response requested the step after the
   loop reads nothing and writes nothing, no GetZWave call is made and the
   call returns None. *)
C21_ResponsePhase ==
    /\ [](/\ gzCalls <= 1
          /\ InLoop => (gzCalls = 0 /\ gzReads = 0 /\ gzAcks = 0)
          /\ gzCalls = 1 => (flag /\ gzTimeout = s2Timeout)
          /\ pc = "s_ret" =>
                IF flag
                THEN gzCalls = 1 /\ response = gzRet
                ELSE /\ gzCalls = 0
                     /\ response = <<>>
                     /\ gzReads = 0
                     /\ gzAcks = 0)
    /\ [][(pc = "s_after" /\ pc' # pc) =>
            /\ rx' = rx
            /\ gzAcks' = gzAcks
            /\ pc' = (IF flag THEN "g_start" ELSE "s_ret")
            /\ response' = <<>>]_vars

C21_Witness ==
    /\ pc = "s_ret"
    /\ flag
    /\ firstAckAt = 0
    /\ nFrames = Retries(variant)
    /\ response # <<>>
    /\ gzAcks = 1

(* A frame as GetZWave parses it: SOF, the length byte (payload + 2), the
   direction byte, the payload, and the checksum that makes
   checksum(pkt) ^ length zero. *)
WellFormed(dir, payload) ==
    LET body == <<dir>> \o payload
        len  == Len(payload) + 2
    IN  <<SOF, len>> \o body \o <<Xor(checksum(body), len)>>

(* Bytes of a run ahead of a frame: any byte but SOF. *)
LeadBytes == {0, ACK, 254}
(* Payload bytes of the frame: SOF may occur inside a frame. *)
ResyncBytes == {0, SOF, 253}
(* What follows the frame in the buffer. *)
Trailers == {<<>>, <<SOF>>, <<0>>}

(* A GetZWave call with a run of non-SOF bytes, a well-formed frame and
   possibly a byte after it in the receive buffer. *)
InitResync ==
    /\ variant \in Variants
    /\ pc = "g_start"
    /\ caller = "top"
    /\ lead \in SeqsUpTo(LeadBytes, MaxLead)
    /\ cmd \in SeqsUpTo(ResyncBytes, MaxPayload)
    /\ wire \in {WellFormed(dir, cmd) : dir \in {REQUEST, RESPONSE}}
    /\ sentWire = wire
    /\ rx \in {lead \o wire \o t : t \in Trailers}
    /\ stale0 = Len(rx)
    /\ radioSent = 0
    /\ ackedAt = 0
    /\ delivered = TRUE
    /\ nCorrupt = 0
    /\ GZIdle
    /\ S2Idle
    /\ CtlIdle

(* With every byte buffered no wait of GetRxChar runs out. *)
NextResync ==
    \/ GZ_Begin
    \/ GZ_FirstByte
    \/ GZ_SyncByte
    \/ GZ_LenByte
    \/ GZ_BodyByte

SpecResync == InitResync /\ [][NextResync]_vars

(* C22: with a run of bytes other than 0x01 and then a well-formed frame
   buffered, no wait of GetZWave runs out; the call returns the payload of
   the frame (direction byte and checksum stripped), having written one
   ACK and consumed the run and the frame and no byte after the frame's
   checksum. *)
C22_Resync ==
    /\ pc \in {"g_start", "g_first", "g_sync", "g_len", "g_body", "g_ret"}
    /\ pc \in Waiting => (tmo > 0 /\ rx # <<>>)
    /\ pc = "g_ret" =>
          /\ gzRet = <<cmd>>
          /\ gzAcks = 1
          /\ gzResidue = 0
          /\ gzReads = Len(lead) + Len(wire)
          /\ Len(rx) = stale0 - Len(lead) - Len(wire)
          /\ \E t \in Trailers : rx = t

C22_Witness ==
    /\ pc = "g_ret"
    /\ Len(lead) = 2
    /\ cmd = <<SOF, 253>>
    /\ rx = <<SOF>>

(* C23 as stated: when the wait for a further byte runs out inside the
   sync loop, after at least one byte that is not 0x01 has been read, the
   GetZWave call returns None and writes no ACK. *)
C23_DesyncTimeoutReturnsNone ==
    [][(pc = "g_sync" /\ RxNone /\ pc' # pc) =>
          /\ pc' = "g_ret"
          /\ gzRet' = <<>>
          /\ gzAcks' = gzAcks]_vars

(* C24 as stated: when the wait for the length byte or for a body byte
   runs out, the GetZWave call of either variant returns the bytes
   collected so far and raises nothing. *)
C24_StallReturnsCollected ==
    [][(pc \in {"g_len", "g_body"} /\ RxNone /\ pc' # pc) =>
          /\ pc' = "g_ret"
          /\ gzRet' = <<pkt>>]_vars

(* C25: the first wait of GetZWave runs out only when no byte was buffered
   at any of its polls; the call then returns None, having written no ACK
   and consumed no byte: every byte the radio has sent, one that arrived
   after the last poll included, is still in the buffer. *)
C25_InitialTimeout ==
    /\ [](pc = "g_first" =>
            /\ gzReads = 0
            /\ gzAcks = 0
            /\ Len(rx) = stale0 + radioSent
            /\ RxNone => stale0 = 0)
    /\ [][(pc = "g_first" /\ RxNone /\ pc' # pc) =>
            /\ pc' = "g_ret"
            /\ gzRet' = <<>>
            /\ rx' = rx
            /\ gzAcks' = 0
            /\ gzReads' = 0]_vars
    /\ []((pc = "g_ret" /\ gzReads = 0) =>
            /\ gzRet = <<>>
            /\ gzAcks = 0
            /\ Len(rx) = radioSent)

C25_Witness ==
    /\ pc = "g_ret"
    /\ gzReads = 0
    /\ gzRet = <<>>
    /\ rx # <<>>

(* The frame received is the frame sent but possibly for its last byte,
   the checksum. *)
SameButChecksum ==
    /\ delivered
    /\ Len(wire) = Len(sentWire)
    /\ \A i \in 1..(Len(wire) - 1) : wire[i] = sentWire[i]

ChecksumAltered == wire[Len(wire)] # sentWire[Len(sentWire)]

(* C26: of two frames fully received that differ in the checksum byte
   only, the one whose checksum is right and the one whose checksum is
   wrong, GetZWave returns the same payload, writes one ACK for each and
   consumes the whole frame; only the residue computed tells them apart. *)
C26_ChecksumLeniency ==
    (pc = "g_ret" /\ SameButChecksum) =>
        /\ gzRet = <<cmd>>
        /\ gzAcks = 1
        /\ gzReads = Len(wire)
        /\ rx = <<>>
        /\ (gzResidue # 0) <=> ChecksumAltered

C26_Witness ==
    /\ pc = "g_ret"
    /\ SameButChecksum
    /\ ChecksumAltered
    /\ Len(cmd) = 2
    /\ gzRet = <<cmd>>

----------------------------------------------------------------------------
(* Further properties of the power ramp, checked under SpecRamp. *)

(* The report fetched does not let the descent go on: no frame, a frame
   that is not 10 bytes long, or a count below 5. *)
StopsDescent(o) == ~WellFormedReport(o) \/ Count(o) < 5

(* C27: the commands sent after the preflight command are test commands
   with probe count 10 for the levels full, -4 dBm, -8 dBm, -10 dBm in
   that order, a prefix of them, each level once; the list of commands
   only grows; and a report that has fewer than 5 acknowledgments or is
   not 10 bytes long is the last one fetched and the command it answers is
   the last one sent. *)
C27_DescentOrder ==
    /\ [](/\ Len(sent) <= 5
          /\ Len(reports) <= Len(sent) - 1 \/ sent = <<>>
          /\ \A i \in 2..Len(sent) :
                /\ Len(sent[i]) = 11
                /\ At(sent[i], 4) = 4
                /\ At(sent[i], 6) = <<0, 4, 8, 9>>[i - 1]
                /\ At(sent[i], 8) = 10
          /\ \A j \in 1..Len(reports) :
                StopsDescent(reports[j]) =>
                    (j = Len(reports) /\ Len(sent) = j + 1 /\ pc # "r_send"))
    /\ [][Len(sent') >= Len(sent) /\ SubSeq(sent', 1, Len(sent)) = sent]_vars

C27_Witness ==
    /\ pc = "exit"
    /\ Len(sent) = 4
    /\ Len(reports) = 3
    /\ CountsAre(<<10, 5, 4>>)

(* C28 as stated: a preflight call or a report fetch of the descent that
   returns no frame does not end the ramp with an unhandled error. *)
C28_NoFrameEndsWithReport ==
    (\/ \E i \in 1..Len(pre) : pre[i] = NoFrame
     \/ \E j \in 1..Len(reports) : reports[j] = NoFrame) => pc # "raised"

----------------------------------------------------------------------------
(* Termination of a call against a radio that never falls silent: the     *)
(* radio refills the receive buffer whenever it holds less than LinkCap    *)
(* bytes, with no bound on how many bytes it sends; the host runs on       *)
(* (weak fairness of its steps).                                           *)

LinkCap == 1
(* Link-level bytes other than SOF. *)
LiveBytes == {ACK, NAK}

RadioKeeps ==
    /\ ~CallOver
    /\ Len(rx) < LinkCap
    /\ \E b \in LiveBytes : rx' = Append(rx, b)
    /\ UNCHANGED <<variant, pc, tmo, caller, gzVars, codecVars, s2Vars, envVars,
                   callVars, ctlVars>>

(* The steps of the host that such a radio lets happen: with no SOF on
   the link GetZWave never gets past its sync loop. *)
HostLive ==
    \/ Send2ZWave
    \/ GZ_Begin
    \/ RxPoll
    \/ GZ_FirstTimeout
    \/ GZ_FirstByte
    \/ GZ_SyncByte
    \/ GZ_SyncTimeout

InitLive ==
    /\ variant \in Variants
    /\ caller \in {"s2z", "top"}
    /\ pc = (IF caller = "s2z" THEN "s_start" ELSE "g_start")
    /\ rx = <<>>
    /\ stale0 = 0
    /\ radioSent = 0
    /\ lead = <<>>
    /\ ackedAt = 0
    /\ GZIdle
    /\ cmd = <<FUNC_ID_ZW_SET_DEFAULT>>
    /\ wire = <<>>
    /\ sentWire = <<>>
    /\ delivered = FALSE
    /\ nCorrupt = 0
    /\ flag \in (IF caller = "s2z" THEN BOOLEAN ELSE {FALSE})
    /\ retries = 0
    /\ floodI = 0
    /\ nFrames = 0
    /\ s2Acks = 0
    /\ firstAckAt = 0
    /\ response = <<>>
    /\ reply = <<>>
    /\ s2Timeout = FrameWait
    /\ CtlIdle

NextLive ==
    \/ HostLive
    \/ RadioKeeps

SpecLive == InitLive /\ [][NextLive]_vars /\ WF_vars(HostLive)

(* C29 as stated: every Send2ZWave and GetZWave call comes to an end,
   whatever the radio does, a radio that keeps sending bytes other than
   0x01 or keeps the receive buffer filled included. *)
C29_EveryCallEnds == <>CallOver

----------------------------------------------------------------------------
(* A radio that receives every copy of the frame and answers each with    *)
(* one ACK, at any time after the copy was written.                        *)

RadioAcks ==
    /\ pc \in {"s_wait", "s_flood", "s_send"}
    /\ radioSent < nFrames
    /\ rx' = Append(rx, ACK)
    /\ radioSent' = radioSent + 1
    /\ ackedAt' = IF ackedAt = 0 THEN nFrames ELSE ackedAt
    /\ UNCHANGED <<variant, pc, tmo, caller, gzVars, codecVars, s2Vars, stale0,
                   gzCalls, s2Timeout, lead, rcVars, ctlVars>>

InitLateAck ==
    /\ variant \in Variants
    /\ pc = "s_start"
    /\ caller = "s2z"
    /\ rx = <<>>
    /\ stale0 = 0
    /\ radioSent = 0
    /\ lead = <<>>
    /\ ackedAt = 0
    /\ GZIdle
    /\ cmd = <<FUNC_ID_ZW_SET_DEFAULT>>
    /\ wire = <<>>
    /\ sentWire = <<>>
    /\ delivered = FALSE
    /\ nCorrupt = 0
    /\ flag = FALSE
    /\ retries = 0
    /\ floodI = 0
    /\ nFrames = 0
    /\ s2Acks = 0
    /\ firstAckAt = 0
    /\ response = <<>>
    /\ reply = <<>>
    /\ s2Timeout = FrameWait
    /\ CtlIdle

(* The steps of Send2ZWave that happen with nothing buffered at the call
   and ACK the only byte received. *)
NextLateAck ==
    \/ S2_Begin
    \/ S2_PurgeEnd
    \/ S2_Send
    \/ RxPoll
    \/ S2_NoReply
    \/ S2_Flood
    \/ S2_ReplyAck
    \/ S2_After
    \/ RadioAcks

SpecLateAck == InitLateAck /\ [][NextLateAck]_vars

(* C30 as stated: once the radio has put the ACK for a copy of the frame
   on the link, the Send2ZWave call writes no further copy. *)
C30_NoCopyAfterAck == ackedAt # 0 => nFrames = ackedAt

----------------------------------------------------------------------------
(* GetRxChar(T) called on its own, for T in 0..MaxT, with bytes arriving  *)
(* between any two of its steps.                                           *)

(* timeout is the local counter of the call. *)
X_Begin ==
    /\ pc = "x_call"
    /\ tmo' = rcTimeout
    /\ pc' = "x_loop"
    /\ UNCHANGED <<rx, gzVars, notGZ>>

(* if timeout>0: retval= self.UZB.read() *)
X_Read ==
    /\ pc = "x_loop"
    /\ RxByte
    /\ rcRet' = <<Head(rx)>>
    /\ rx' = Tail(rx)
    /\ pc' = "x_ret"
    /\ UNCHANGED <<tmo, gzVars, variant, caller, codecVars, s2Vars, envVars,
                   gzCalls, s2Timeout, lead, ackedAt, rcTimeout, ctlVars>>

(* else: retval= None *)
X_None ==
    /\ pc = "x_loop"
    /\ RxNone
    /\ rcRet' = <<None>>
    /\ pc' = "x_ret"
    /\ UNCHANGED <<rx, tmo, gzVars, variant, caller, codecVars, s2Vars, envVars,
                   gzCalls, s2Timeout, lead, ackedAt, rcTimeout, ctlVars>>

(* Bytes keep arriving until the call has returned. *)
X_RadioPut ==
    /\ pc # "x_ret"
    /\ RadioPut

InitRxChar ==
    /\ variant \in Variants
    /\ pc = "x_call"
    /\ caller = "top"
    /\ rx \in SeqsUpTo(RadioBytes, MaxStale)
    /\ stale0 = Len(rx)
    /\ radioSent = 0
    /\ lead = <<>>
    /\ ackedAt = 0
    /\ tmo = 0
    /\ gzTimeout = FrameWait
    /\ length = None
    /\ pkt = <<>>
    /\ gzRet = <<>>
    /\ gzResidue = None
    /\ gzAcks = 0
    /\ gzReads = 0
    /\ gzCalls = 0
    /\ rcTimeout \in 0..MaxT
    /\ rcRet = <<>>
    /\ cmd = <<>>
    /\ wire = <<>>
    /\ sentWire = <<>>
    /\ delivered = FALSE
    /\ nCorrupt = 0
    /\ S2Idle
    /\ CtlIdle

NextRxChar ==
    \/ X_Begin
    \/ RxPoll
    \/ X_Read
    \/ X_None
    \/ X_RadioPut

SpecRxChar == InitRxChar /\ [][NextRxChar]_vars

(* C31: GetRxChar(T), T >= 0: the counter stays within 0..T and every
   poll-and-sleep step lowers it by one, finds the buffer empty and reads
   nothing, so there are at most T such steps; the call returns None
   exactly when the counter is 0 and consumes nothing then, and returns
   the oldest byte otherwise and consumes that byte only; a byte that
   arrived while the counter reached 0 is still in the buffer after the
   return. *)
C31_GetRxChar ==
    /\ [](pc \in {"x_loop", "x_ret"} => (tmo >= 0 /\ tmo <= rcTimeout))
    /\ [][(pc = "x_loop" /\ pc' = "x_loop" /\ radioSent' = radioSent) =>
            /\ rx = <<>>
            /\ rx' = rx
            /\ tmo' = tmo - 1]_vars
    /\ [][(pc = "x_loop" /\ pc' # pc) =>
            /\ pc' = "x_ret"
            /\ tmo' = tmo
            /\ IF tmo = 0
               THEN rcRet' = <<None>> /\ rx' = rx
               ELSE rx # <<>> /\ rcRet' = <<Head(rx)>> /\ rx' = Tail(rx)]_vars
    /\ [](pc = "x_ret" =>
            /\ (rcRet = <<None>>) <=> (tmo = 0)
            /\ Len(rx) = stale0 + radioSent - (IF rcRet = <<None>> THEN 0 ELSE 1))

C31_Witness ==
    /\ pc = "x_ret"
    /\ rcTimeout = MaxT
    /\ stale0 = 0
    /\ rcRet = <<None>>
    /\ rx # <<>>

====
